---------------------------- MODULE Spec2Model ----------------------------
(***************************************************************************)
(* Model of mandelbrot_render.py: the escape-time evaluator (recursion,    *)
(* get_colour), the viewport mapping (step_pixel_to_complex_coords), the   *)
(* frame generator (step_get_image_vals) and the animation step            *)
(* (zoom_in_step).                                                         *)
(*                                                                         *)
(* Python floats are modelled as rationals n/d of bounded range and        *)
(* bounded precision: a result beyond MaxFloat overflows to an infinity, a *)
(* result whose denominator exceeds FloatPrecision is rounded to the       *)
(* nearest multiple of 1/FloatPrecision, inf - inf and inf * 0 are NaN.    *)
(* The inputs of the animation are chosen so that the viewport mapping     *)
(* stays within range and precision: there the arithmetic is exact.        *)
(***************************************************************************)
EXTENDS Integers, Sequences, FiniteSets, TLC

\* ------------------------------------------------------------- bounds

\* Largest finite float (sys.float_info.max, scaled down).
MaxFloat == 8
\* Finest denominator a float holds exactly (the mantissa, scaled down).
FloatPrecision == 48
\* Largest iteration depth N explored.
MaxN == 4
\* Largest step index explored.
MaxStep == 2
\* Largest recentering_steps explored.
MaxRecenter == 2
\* Largest res_x and res_y explored.
MaxResX == 6
MaxResY == 4

\* ------------------------------------------------------------- floats

AbsInt(i) == IF i < 0 THEN -i ELSE i

RECURSIVE GCD(_, _)
GCD(a, b) == IF b = 0 THEN a ELSE GCD(b, a % b)

\* A finite float n/d in lowest terms; d = 0 encodes the special values.
Rat(n, d) ==
    LET g == GCD(AbsInt(n), d) IN [n |-> n \div g, d |-> d \div g]

PosInf == [n |-> 1, d |-> 0]
NegInf == [n |-> -1, d |-> 0]
NaN == [n |-> 0, d |-> 0]

IsNaN(x) == x.d = 0 /\ x.n = 0
IsInf(x) == x.d = 0 /\ x.n # 0
IsFinite(x) == x.d > 0
Sign(x) == IF x.n > 0 THEN 1 ELSE IF x.n < 0 THEN -1 ELSE 0
SignedInf(s) == IF s > 0 THEN PosInf ELSE NegInf

FromInt(i) == [n |-> i, d |-> 1]

\* Round half up of a / b, b > 0.
RoundDiv(a, b) == (2 * a + b) \div (2 * b)

\* The float an exact result n/d (d > 0) is stored as.
Fl(n, d) ==
    IF AbsInt(n) > MaxFloat * d THEN SignedInf(n)
    ELSE LET r == Rat(n, d) IN
         IF r.d <= FloatPrecision THEN r
         ELSE Rat(RoundDiv(r.n * FloatPrecision, r.d), FloatPrecision)

FNeg(x) == [n |-> -x.n, d |-> x.d]

FMul(x, y) ==
    IF IsNaN(x) \/ IsNaN(y) THEN NaN
    ELSE IF IsInf(x) \/ IsInf(y)
         THEN (IF Sign(x) * Sign(y) = 0 THEN NaN ELSE SignedInf(Sign(x) * Sign(y)))
         ELSE Fl(x.n * y.n, x.d * y.d)

FAdd(x, y) ==
    IF IsNaN(x) \/ IsNaN(y) THEN NaN
    ELSE IF IsInf(x) /\ IsInf(y) THEN (IF x = y THEN x ELSE NaN)
    ELSE IF IsInf(x) THEN x
    ELSE IF IsInf(y) THEN y
    ELSE Fl(x.n * y.d + y.n * x.d, x.d * y.d)

FSub(x, y) == FAdd(x, FNeg(y))

\* x / y for a finite y # 0 (a zero divisor raises in the caller).
FDiv(x, y) ==
    IF IsNaN(x) THEN NaN
    ELSE IF IsInf(x) THEN SignedInf(Sign(x) * Sign(y))
    ELSE Fl(x.n * y.d * Sign(y), x.d * AbsInt(y.n))

\* x <= y: false when either is NaN.
FLe(x, y) ==
    IF IsNaN(x) \/ IsNaN(y) THEN FALSE
    ELSE IF IsInf(x) THEN (x = NegInf \/ y = PosInf)
    ELSE IF IsInf(y) THEN y = PosInf
    ELSE x.n * y.d <= y.n * x.d

FLt(x, y) == FLe(x, y) /\ x # y

\* ------------------------------------------------------------ complex

Complex(x, y) == [re |-> x, im |-> y]
CInt(a, b) == Complex(FromInt(a), FromInt(b))

\* complex + complex and complex * complex, componentwise as CPython does.
CAdd(a, b) == Complex(FAdd(a.re, b.re), FAdd(a.im, b.im))
CMul(a, b) ==
    Complex(FSub(FMul(a.re, b.re), FMul(a.im, b.im)),
            FAdd(FMul(a.re, b.im), FMul(a.im, b.re)))

\* abs(complex): the magnitude is held as its square sq (the square root is
\* monotone, so comparisons of magnitudes are comparisons of squares). A
\* non-finite component gives inf (if any is inf) or NaN; finite components
\* whose magnitude overflows raise OverflowError.
CAbs(z) ==
    IF ~IsFinite(z.re) \/ ~IsFinite(z.im)
    THEN [raises |-> FALSE,
          sq |-> IF IsInf(z.re) \/ IsInf(z.im) THEN PosInf ELSE NaN]
    ELSE LET s == Rat(z.re.n * z.re.n * z.im.d * z.im.d
                        + z.im.n * z.im.n * z.re.d * z.re.d,
                      z.re.d * z.re.d * z.im.d * z.im.d)
         IN IF s.n > MaxFloat * MaxFloat * s.d
            THEN [raises |-> TRUE, sq |-> PosInf]
            ELSE [raises |-> FALSE, sq |-> s]

\* -------------------------------------------------- iteration rule

mandlebrot_f(c, z) == CAdd(CMul(z, z), c)

\* The loop of recursion: z after iterating n more times.
RECURSIVE Iterate(_, _, _)
Iterate(c, z, n) == IF n <= 0 THEN z ELSE Iterate(c, mandlebrot_f(c, z), n - 1)

\* recursion(c, N): raises ValueError for N <= 0, else the final z.
recursion(c, N) ==
    IF N <= 0
    THEN [exc |-> "ValueError", z |-> CInt(0, 0)]
    ELSE [exc |-> "none", z |-> Iterate(c, CInt(0, 0), N)]

\* ------------------------------------------------------- get_colour

cut_off == 2
\* scale = 0.01
scale == [n |-> 1, d |-> 100]

\* An intensity: a number, or the exponential falloff
\* exp(-scale * (m - cut_off)) of a finite magnitude m given by its square.
Num(x) == [kind |-> "num", val |-> x]
ExpFalloff(sq) == [kind |-> "exp", val |-> sq]

\* np.exp(-scale*(abs_z-cut_off)): exp(-inf) is 0.0.
NpExp(sq) == IF IsInf(sq) THEN Num(FromInt(0)) ELSE ExpFalloff(sq)

Returns(v) == [exc |-> "none", val |-> v]
Raises(e) == [exc |-> e, val |-> Num(FromInt(0))]

\* Mutant of LeCutOff: the comparison of line 50 reversed.
LeCutOff_Reversed(sq) == FLe(FromInt(cut_off * cut_off), sq)

\* abs_z <= cut_off, on the square of abs_z.
LeCutOff(sq) == FLe(sq, FromInt(cut_off * cut_off))

\* Lines 37-54 of get_colour, after the early exit.
ColourOfFinal(c, N) ==
    LET r == recursion(c, N)
        abs_z == CAbs(r.z)
    IN IF r.exc # "none" THEN Raises(r.exc)
       ELSE IF abs_z.raises THEN Returns(Num(FromInt(0)))
       ELSE IF IsNaN(abs_z.sq) THEN Returns(Num(FromInt(0)))
       ELSE IF LeCutOff(abs_z.sq) THEN Returns(Num(FromInt(1)))
       ELSE Returns(NpExp(abs_z.sq))

\* Mutant of get_colour: the early exit of lines 33-35 left out.
get_colour_NoEarlyExit(c, N) ==
    IF CAbs(c).raises THEN Raises("OverflowError") ELSE ColourOfFinal(c, N)

get_colour(c, N) ==
    LET abs_c == CAbs(c)
    IN IF abs_c.raises THEN Raises("OverflowError")
       ELSE IF FLe(FromInt(2 * 2), abs_c.sq) THEN Returns(Num(FromInt(0)))
       ELSE ColourOfFinal(c, N)


\* ------------------------------------- step_pixel_to_complex_coords

Min(a, b) == IF a <= b THEN a ELSE b

Max(a, b) == IF a >= b THEN a ELSE b

\* Mutant of PixelWidth: max(res_x,res_y) in place of min(res_x,res_y).
PixelWidth_Max(res_x, res_y, step) ==
    FDiv(FMul(FMul(FromInt(2), FDiv(FromInt(2), FromInt(Max(res_x, res_y)))),
              FromInt(2)),
         FromInt(2 * (step + 1)))

\* w = 2 * (2/(min(res_x,res_y))) * 2/(2*(step+1)), for step # -1.
PixelWidth(res_x, res_y, step) ==
    FDiv(FMul(FMul(FromInt(2), FDiv(FromInt(2), FromInt(Min(res_x, res_y)))),
              FromInt(2)),
         FromInt(2 * (step + 1)))

\* Lines 68-73: the complex point of pixel (u, v) for pixel width w.
PixelPoint(u, v, res_x, res_y, focus, w) ==
    LET top_left_x == FAdd(FAdd(focus.re,
                                FMul(FNeg(w), FDiv(FromInt(res_x), FromInt(2)))),
                           FDiv(w, FromInt(2)))
        top_left_y == FSub(FAdd(focus.im,
                                FMul(w, FDiv(FromInt(res_y), FromInt(2)))),
                           FDiv(w, FromInt(2)))
    IN Complex(FAdd(top_left_x, FMul(FromInt(u), w)),
               FSub(top_left_y, FMul(FromInt(v), w)))

step_pixel_to_complex_coords(u, v, res_x, res_y, focus, step) ==
    IF 2 * (step + 1) = 0
    THEN [exc |-> "ZeroDivisionError", val |-> CInt(0, 0)]
    ELSE [exc |-> "none",
          val |-> PixelPoint(u, v, res_x, res_y, focus,
                             PixelWidth(res_x, res_y, step))]

\* ------------------------------------------------------------ state

VARIABLES
    fargs,         \* the run's parameters: focus, res_x, res_y, recentering_steps, N
    pc,            \* "idle", "loop" (inside step_get_image_vals), "shown", "raised"
    step,          \* the step zoom_in_step was last called with
    view,          \* the step and focus passed to step_get_image_vals
    image_matrix,  \* the grid being filled
    u, v,          \* the loop indices of step_get_image_vals
    exc,           \* the exception the last zoom_in_step call raised
    shown,         \* per step, the grids handed to ax.matshow so far
    rerendered,    \* whether a step already shown was rendered again
    ret            \* the result of the last direct call of a core function

vars == <<fargs, pc, step, view, image_matrix, u, v, exc, shown, rerendered, ret>>

\* ----------------------------------------------------- zoom_in_step

\* Line 99: the resolution check of zoom_in_step.
BadResolution(res_x, res_y) ==
    res_x % 2 = 1 \/ res_y % 2 = 1 \/ res_x <= 2 \/ res_y <= 2

\* Mutant of CurrentFocus: focus * (step+1) / recentering_steps.
CurrentFocus_OffByOne(focus, s, recentering_steps) ==
    LET scaled == CMul(focus, CInt(s + 1, 0))
    IN Complex(FDiv(scaled.re, FromInt(recentering_steps)),
               FDiv(scaled.im, FromInt(recentering_steps)))

\* Mutant of CurrentFocus: the focus advanced by focus / recentering_steps
\* from the focus of the frame rendered before.
CurrentFocus_Incremental(focus, s, recentering_steps) ==
    IF s = 0 THEN CInt(0, 0)
    ELSE CAdd(view.focus,
              Complex(FDiv(focus.re, FromInt(recentering_steps)),
                      FDiv(focus.im, FromInt(recentering_steps))))

\* Line 107: focus * step / recentering_steps for the step s, when
\* recentering_steps # 0.
CurrentFocus(focus, s, recentering_steps) ==
    LET scaled == CMul(focus, CInt(s, 0))
    IN Complex(FDiv(scaled.re, FromInt(recentering_steps)),
               FDiv(scaled.im, FromInt(recentering_steps)))

\* np.zeros([res_x, res_y])
Zeros(res_x, res_y) ==
    [p \in (0 .. res_x - 1) \X (0 .. res_y - 1) |-> Num(FromInt(0))]

Steps == 0 .. MaxStep
FocusVals == {CInt(0, 0), CInt(-1, 0), CInt(-1, 1)}
NVals == {0, 1, MaxN}
NoCall == [fn |-> "none", args |-> <<>>, exc |-> "none", val |-> 0]

Init ==
    /\ fargs \in [focus : FocusVals,
                  res_x : 2 .. MaxResX,
                  res_y : 2 .. MaxResY,
                  recentering_steps : 0 .. MaxRecenter,
                  N : NVals]
    /\ pc = "idle"
    /\ step = 0
    /\ view = [step |-> 0, focus |-> CInt(0, 0)]
    /\ image_matrix = << >>
    /\ u = 0
    /\ v = 0
    /\ exc = "none"
    /\ shown = [s \in Steps |-> {}]
    /\ rerendered = FALSE
    /\ ret = NoCall

\* zoom_in_step(step, ...) up to the call of step_get_image_vals, which
\* allocates the grid and enters its loop.
ZoomInStep(s) ==
    /\ pc # "loop"
    /\ step' = s
    /\ u' = 0
    /\ v' = 0
    /\ UNCHANGED <<fargs, shown, rerendered, ret>>
    /\ IF BadResolution(fargs.res_x, fargs.res_y) \/ s < 0
       THEN /\ exc' = "ValueError"
            /\ pc' = "raised"
            /\ UNCHANGED <<view, image_matrix>>
       ELSE IF s <= fargs.recentering_steps /\ fargs.recentering_steps = 0
       THEN /\ exc' = "ZeroDivisionError"
            /\ pc' = "raised"
            /\ UNCHANGED <<view, image_matrix>>
       ELSE /\ exc' = "none"
            /\ pc' = "loop"
            /\ view' = [step |-> s,
                        focus |-> IF s <= fargs.recentering_steps
                                  THEN CurrentFocus(fargs.focus, s,
                                                    fargs.recentering_steps)
                                  ELSE fargs.focus]
            /\ image_matrix' = Zeros(fargs.res_x, fargs.res_y)

\* One iteration of the loop of step_get_image_vals; the last one returns
\* the grid to zoom_in_step, which hands it to ax.matshow.
Pixel ==
    /\ pc = "loop"
    /\ UNCHANGED <<fargs, step, view, ret>>
    /\ LET c == step_pixel_to_complex_coords(u, v, fargs.res_x, fargs.res_y,
                                             view.focus, view.step)
           col == get_colour(c.val, fargs.N)
           filled == [image_matrix EXCEPT ![<<u, v>>] = col.val]
           last == u = fargs.res_x - 1 /\ v = fargs.res_y - 1
       IN IF c.exc # "none" \/ col.exc # "none"
          THEN /\ exc' = (IF c.exc # "none" THEN c.exc ELSE col.exc)
               /\ pc' = "raised"
               /\ UNCHANGED <<image_matrix, u, v, shown, rerendered>>
          ELSE /\ image_matrix' = filled
               /\ exc' = "none"
               /\ u' = (IF v = fargs.res_y - 1 /\ ~last THEN u + 1 ELSE u)
               /\ v' = (IF last THEN v ELSE IF v = fargs.res_y - 1 THEN 0 ELSE v + 1)
               /\ pc' = (IF last THEN "shown" ELSE "loop")
               /\ shown' = (IF last
                            THEN [shown EXCEPT ![view.step] = @ \cup {filled}]
                            ELSE shown)
               /\ rerendered' = (rerendered \/ (last /\ shown[view.step] # {}))

Next == (\E s \in -1 .. MaxStep : ZoomInStep(s)) \/ Pixel

Spec == Init /\ [][Next]_vars

\* ------------------------------------- direct calls of the core functions

\* Points get_colour is called with: inside and outside the radius-2 disc,
\* on it, and with components near the largest float.
CPoints ==
    {Complex(Rat(a, 4), Rat(b, 4)) : a \in {-6, -2, 0, 1, 6, 7, 8}, b \in {0, 2, 3, 6}}
    \cup {Complex(FromInt(MaxFloat), FromInt(MaxFloat)), CInt(3, 0),
          Complex(Rat(5, 4), Rat(3, 8))}

InitCalls ==
    /\ fargs = [focus |-> CInt(0, 0), res_x |-> 4, res_y |-> 4,
                recentering_steps |-> 0, N |-> 1]
    /\ pc = "idle"
    /\ step = 0
    /\ view = [step |-> 0, focus |-> CInt(0, 0)]
    /\ image_matrix = << >>
    /\ u = 0
    /\ v = 0
    /\ exc = "none"
    /\ shown = [s \in Steps |-> {}]
    /\ rerendered = FALSE
    /\ ret = NoCall

CallGetColour(c, N) ==
    /\ ret.fn = "none"
    /\ ret' = [fn |-> "get_colour", args |-> <<c, N>>,
               exc |-> get_colour(c, N).exc, val |-> get_colour(c, N).val]
    /\ UNCHANGED <<fargs, pc, step, view, image_matrix, u, v, exc, shown, rerendered>>

CallPixelToComplex(pu, pv, res_x, res_y, focus, s) ==
    /\ ret.fn = "none"
    /\ LET r == step_pixel_to_complex_coords(pu, pv, res_x, res_y, focus, s)
       IN ret' = [fn |-> "step_pixel_to_complex_coords",
                  args |-> <<pu, pv, res_x, res_y, focus, s>>,
                  exc |-> r.exc, val |-> r.val]
    /\ UNCHANGED <<fargs, pc, step, view, image_matrix, u, v, exc, shown, rerendered>>

NextCalls ==
    \/ \E c \in CPoints, N \in -1 .. MaxN : CallGetColour(c, N)
    \/ \E res_x \in 2 .. MaxResX, res_y \in 2 .. MaxResY :
       \E pu \in 0 .. res_x - 1, pv \in 0 .. res_y - 1 :
       \E focus \in FocusVals, s \in -1 .. MaxStep :
          CallPixelToComplex(pu, pv, res_x, res_y, focus, s)

SpecCalls == InitCalls /\ [][NextCalls]_vars

\* ------------------------------------------------------------ claims

\* Exact rational arithmetic, for the values the claims state.
QAdd(x, y) == Rat(x.n * y.d + y.n * x.d, x.d * y.d)
QMul(x, y) == Rat(x.n * y.n, x.d * y.d)
QScale(z, a, b) == Complex(QMul(z.re, Rat(a, b)), QMul(z.im, Rat(a, b)))
SqMag(z) == QAdd(QMul(z.re, z.re), QMul(z.im, z.im))

Grid == (0 .. fargs.res_x - 1) \X (0 .. fargs.res_y - 1)
\* Cells evaluated and stored so far by the loop of step_get_image_vals.
CellsStored == u * fargs.res_y + v
\* zoom_in_step has called step_get_image_vals.
InFrame == pc \in {"loop", "shown"}

\* An intensity lies in [0, 1]: a number between 0 and 1, or e to a
\* non-positive exponent -scale * (m - cut_off).
InUnitInterval(x) ==
    IF x.kind = "num"
    THEN FLe(FromInt(0), x.val) /\ FLe(x.val, FromInt(1))
    ELSE scale.n > 0 /\ FLe(FromInt(cut_off * cut_off), x.val)

IsGetColour == ret.fn = "get_colour"
IsMapper == ret.fn = "step_pixel_to_complex_coords"

\* C1: get_colour called with N <= 0 fails with ValueError for every point c,
\* also for |c| >= 2, and never returns an intensity.
C1_NonPositiveNRaises ==
    (IsGetColour /\ ret.args[2] <= 0) => ret.exc = "ValueError"

\* C2: a configuration error is raised before any pixel of the frame is
\* computed: when zoom_in_step ends with ValueError no cell has been stored.
C2_ErrorBeforeAnyPixel ==
    exc = "ValueError" => CellsStored = 0

\* C3: with recentering_steps = 0 (and a valid resolution and N) every step
\* s >= 0, s = 0 included, skips phase 1: no error is raised and the frame is
\* generated with the supplied focus.
C3_ZeroRecenteringSkipsPhase1 ==
    (/\ fargs.recentering_steps = 0
     /\ ~BadResolution(fargs.res_x, fargs.res_y)
     /\ fargs.N >= 1
     /\ pc # "idle"
     /\ step >= 0)
    => /\ exc = "none"
       /\ InFrame
       /\ view.focus = fargs.focus

\* C4: step_pixel_to_complex_coords, called with a step >= 0, rejects a
\* resolution with an odd dimension or a dimension <= 2 with a configuration
\* error and maps nothing.
C4_MapperRejectsBadResolution ==
    (IsMapper /\ BadResolution(ret.args[3], ret.args[4]) /\ ret.args[6] >= 0)
    => ret.exc = "ValueError"

\* The frame of the scenario resolution (4,4), N = 1, focus = 0, step = 0.
C5_Scenario ==
    /\ pc = "shown"
    /\ fargs.res_x = 4 /\ fargs.res_y = 4 /\ fargs.N = 1
    /\ view.step = 0
    /\ view.focus = CInt(0, 0)
\* The point of pixel (pu, pv) in the scenario: coordinates in
\* {-1.5, -0.5, 0.5, 1.5}.
C5_Point(pu, pv) == Complex(Rat(2 * pu - 3, 2), Rat(3 - 2 * pv, 2))

\* C5 as stated: each pixel of the scenario has intensity 1 when |c| <= 2 and
\* otherwise the falloff value exp(-0.01*(|c| - 2)).
C5_FalloffOutsideDisc ==
    C5_Scenario =>
        \A p \in Grid :
            image_matrix[p] =
                IF FLe(SqMag(C5_Point(p[1], p[2])), FromInt(4))
                THEN Num(FromInt(1))
                ELSE ExpFalloff(SqMag(C5_Point(p[1], p[2])))

\* C5 as amended: each pixel of the scenario has intensity 1 when |c| < 2 and
\* intensity 0 when |c| >= 2 (the early exit of get_colour).
C5_ZeroOutsideDisc ==
    C5_Scenario =>
        \A p \in Grid :
            image_matrix[p] =
                IF FLt(SqMag(C5_Point(p[1], p[2])), FromInt(4))
                THEN Num(FromInt(1))
                ELSE Num(FromInt(0))

C5_Witness ==
    /\ C5_Scenario
    /\ \E p \in Grid : image_matrix[p] = Num(FromInt(0))
    /\ \E p \in Grid : image_matrix[p] = Num(FromInt(1))

C7_GridContents ==
    /\ (pc = "shown" /\ fargs.N >= 1) =>
          /\ DOMAIN image_matrix = Grid
          /\ \A p \in Grid :
                /\ image_matrix[p] =
                      get_colour(step_pixel_to_complex_coords(
                                     p[1], p[2], fargs.res_x, fargs.res_y,
                                     view.focus, view.step).val,
                                 fargs.N).val
                /\ InUnitInterval(image_matrix[p])
    /\ \A s \in Steps : \A g \in shown[s] : DOMAIN g = Grid

C7_Witness ==
    /\ pc = "shown"
    /\ fargs.N >= 2
    /\ fargs.res_x # fargs.res_y
    /\ \E p \in Grid : image_matrix[p].kind = "exp"
    /\ \E p \in Grid : image_matrix[p] = Num(FromInt(1))
    /\ \E p \in Grid : image_matrix[p] = Num(FromInt(0))

\* C8: the grid of a step depends only on the step and the run's parameters:
\* however often and in whatever order the steps are rendered, every
\* rendering of a step produces the same grid.
C8_OneGridPerStep ==
    \A s \in Steps : Cardinality(shown[s]) <= 1

C8_Witness ==
    /\ rerendered
    /\ fargs.focus # CInt(0, 0)
    /\ fargs.recentering_steps >= 1
    /\ \E s, t \in Steps : s # t /\ shown[s] # {} /\ shown[t] # {}

\* C9: for N >= 1 get_colour has no error path: it returns for every point.
C9_NoErrorPath ==
    (IsGetColour /\ ret.args[2] >= 1) => ret.exc = "none"

\* The pixel width the claim states: 4 / (min(W,H) * (step+1)).
C10_Width(res_x, res_y, s) == Rat(4, Min(res_x, res_y) * (s + 1))
C10_Case ==
    /\ IsMapper
    /\ ~BadResolution(ret.args[3], ret.args[4])
    /\ ret.args[6] >= 0

\* C10: for an even resolution the pixel width is 4/(min(W,H)*(step+1)) and
\* strictly decreases with the step; adjacent pixels are w apart on both axes,
\* the imaginary part decreasing as v grows; at step 0 the viewport is centred
\* on focus and covers [-2,2] x [-2,2] around it.
C10_ViewportGeometry ==
    C10_Case =>
        LET pu == ret.args[1]
            pv == ret.args[2]
            W == ret.args[3]
            H == ret.args[4]
            focus == ret.args[5]
            s == ret.args[6]
            w == C10_Width(W, H, s)
            at(a, b) == step_pixel_to_complex_coords(a, b, W, H, focus, s).val
        IN /\ ret.exc = "none"
           /\ PixelWidth(W, H, s) = w
           /\ FLt(PixelWidth(W, H, s + 1), PixelWidth(W, H, s))
           /\ ret.val = Complex(QAdd(focus.re, QMul(w, Rat(2 * pu - W + 1, 2))),
                                QAdd(focus.im, QMul(w, Rat(H - 1 - 2 * pv, 2))))
           /\ pu + 1 < W => at(pu + 1, pv) = Complex(QAdd(ret.val.re, w), ret.val.im)
           /\ pv + 1 < H => at(pu, pv + 1) = Complex(ret.val.re, QAdd(ret.val.im, FNeg(w)))
           /\ s = 0 =>
                /\ QAdd(at(0, 0).re, at(W - 1, H - 1).re) = QMul(FromInt(2), focus.re)
                /\ QAdd(at(0, 0).im, at(W - 1, H - 1).im) = QMul(FromInt(2), focus.im)
                /\ FLe(QAdd(at(0, 0).re, QMul(w, Rat(-1, 2))), QAdd(focus.re, FromInt(-2)))
                /\ FLe(QAdd(focus.re, FromInt(2)), QAdd(at(W - 1, 0).re, QMul(w, Rat(1, 2))))
                /\ FLe(QAdd(focus.im, FromInt(2)), QAdd(at(0, 0).im, QMul(w, Rat(1, 2))))
                /\ FLe(QAdd(at(0, H - 1).im, QMul(w, Rat(-1, 2))), QAdd(focus.im, FromInt(-2)))

C10_Witness ==
    /\ C10_Case
    /\ ret.exc = "none"
    /\ ret.args[6] >= 1
    /\ ret.args[3] # ret.args[4]
    /\ ret.args[5] # CInt(0, 0)
    /\ ret.args[1] >= 1 /\ ret.args[2] >= 1

=============================================================================
